---- MODULE Spec2Model ----
(***************************************************************************)
(* Connect 4 on bitboards with an incremental Monte-Carlo tree search       *)
(* (src/main.js, the second copy of the program, lines 352-726).            *)
(*                                                                         *)
(* A BigInt bitboard is modelled as the set of the indexes of its set bits: *)
(* BigInt is arbitrary precision, so |, & and >> are exact and become set   *)
(* union, intersection and an index shift.                                  *)
(***************************************************************************)
EXTENDS Integers, Sequences, FiniteSets, TLC

ROWS == 6
COLS == 7
\* Bitboard height: one sentinel row on top of every column.
H == ROWS + 1

Columns == 0 .. (COLS - 1)
Players == {1, 2}

(***************************************************************************)
(* BigInt operations on bit-index sets.                                     *)
(***************************************************************************)
\* 1n << pos
Bit(pos) == {pos}

\* b >> shift
ShiftRight(b, shift) == {i - shift : i \in {j \in b : j >= shift}}

\* a & b
BitAnd(a, b) == a \cap b

\* a | b
BitOr(a, b) == a \cup b

(***************************************************************************)
(* class Board                                                              *)
(***************************************************************************)
\* new Board(): the empty starting position.
NewBoard ==
    [player1_board  |-> {},
     player2_board  |-> {},
     column_heights |-> [c \in Columns |-> 0],
     currentPlayer  |-> 1,
     moveCount      |-> 0]

\* new Board(other): a field-by-field copy; column_heights is copied, not shared.
CopyBoard(other) ==
    [player1_board  |-> other.player1_board,
     player2_board  |-> other.player2_board,
     column_heights |-> [c \in Columns |-> other.column_heights[c]],
     currentPlayer  |-> other.currentPlayer,
     moveCount      |-> other.moveCount]

\* Variant: the full-column test compares with > ROWS instead of >= ROWS.
MakeMoveOkOffByOne(b, col) == b.column_heights[col] <= ROWS
\* The value makeMove(col) returns.
MakeMoveOk(b, col) == b.column_heights[col] < ROWS

\* Variant: the bit index is computed with ROWS in place of H.
MakeMoveWrongBit(b, col) ==
    IF ~MakeMoveOk(b, col) THEN b
    ELSE LET row  == b.column_heights[col]
             pos  == row + col * ROWS
             mask == Bit(pos)
         IN [player1_board  |-> IF b.currentPlayer = 1
                                THEN BitOr(b.player1_board, mask)
                                ELSE b.player1_board,
             player2_board  |-> IF b.currentPlayer = 1
                                THEN b.player2_board
                                ELSE BitOr(b.player2_board, mask),
             column_heights |-> [b.column_heights EXCEPT ![col] = @ + 1],
             currentPlayer  |-> 3 - b.currentPlayer,
             moveCount      |-> b.moveCount + 1]

\* Variant: column_heights[col]++ is left out.
MakeMoveKeepsHeight(b, col) ==
    IF ~MakeMoveOk(b, col) THEN b
    ELSE LET row  == b.column_heights[col]
             pos  == row + col * H
             mask == Bit(pos)
         IN [player1_board  |-> IF b.currentPlayer = 1
                                THEN BitOr(b.player1_board, mask)
                                ELSE b.player1_board,
             player2_board  |-> IF b.currentPlayer = 1
                                THEN b.player2_board
                                ELSE BitOr(b.player2_board, mask),
             column_heights |-> b.column_heights,
             currentPlayer  |-> 3 - b.currentPlayer,
             moveCount      |-> b.moveCount + 1]

\* Variant: moveCount++ is left out.
MakeMoveKeepsCount(b, col) ==
    IF ~MakeMoveOk(b, col) THEN b
    ELSE LET row  == b.column_heights[col]
             pos  == row + col * H
             mask == Bit(pos)
         IN [player1_board  |-> IF b.currentPlayer = 1
                                THEN BitOr(b.player1_board, mask)
                                ELSE b.player1_board,
             player2_board  |-> IF b.currentPlayer = 1
                                THEN b.player2_board
                                ELSE BitOr(b.player2_board, mask),
             column_heights |-> [b.column_heights EXCEPT ![col] = @ + 1],
             currentPlayer  |-> 3 - b.currentPlayer,
             moveCount      |-> b.moveCount]

\* The board after makeMove(col): unchanged when the column is full.
MakeMove(b, col) ==
    IF ~MakeMoveOk(b, col) THEN b
    ELSE LET row  == b.column_heights[col]
             pos  == row + col * H
             mask == Bit(pos)
         IN [player1_board  |-> IF b.currentPlayer = 1
                                THEN BitOr(b.player1_board, mask)
                                ELSE b.player1_board,
             player2_board  |-> IF b.currentPlayer = 1
                                THEN b.player2_board
                                ELSE BitOr(b.player2_board, mask),
             column_heights |-> [b.column_heights EXCEPT ![col] = @ + 1],
             currentPlayer  |-> 3 - b.currentPlayer,
             moveCount      |-> b.moveCount + 1]

V_SHIFT == 1
H_SHIFT == H
D1_SHIFT == H_SHIFT - 1
D2_SHIFT == H_SHIFT + 1
directions == <<V_SHIFT, H_SHIFT, D1_SHIFT, D2_SHIFT>>

\* Variant: the second shift is by shift instead of 2 * shift.
FourInDirectionSingleShift(bits, shift) ==
    LET y == BitAnd(bits, ShiftRight(bits, shift))
    IN  BitAnd(y, ShiftRight(y, shift)) # {}

\* One direction of checkWin: y = board & (board >> shift); y & (y >> 2*shift) != 0.
FourInDirection(bits, shift) ==
    LET y == BitAnd(bits, ShiftRight(bits, shift))
    IN  BitAnd(y, ShiftRight(y, shift * 2)) # {}

\* checkWin(): four in a row for the player who just moved.
CheckWin(b) ==
    LET bits == IF b.currentPlayer = 1 THEN b.player2_board ELSE b.player1_board
    IN  \E k \in 1 .. Len(directions) : FourInDirection(bits, directions[k])

\* Variant: isDraw() also requires that checkWin() is false.
IsDrawAndNoWin(b) == b.moveCount = ROWS * COLS /\ ~CheckWin(b)

\* isDraw()
IsDraw(b) == b.moveCount = ROWS * COLS


(***************************************************************************)
(* State.  board, ret and lastCol are one Board object and the last         *)
(* makeMove(col) call made on it; result is the last checkWin() answer.     *)
(* game and dev drive the moves: a recorded game is followed, with at most  *)
(* MaxDev successful moves off it.                                          *)
(***************************************************************************)
VARIABLES board, ret, lastCol, result, game, dev

boardVars == <<board, ret, lastCol, result, game, dev>>

(***************************************************************************)
(* The search tree and one caller of mcts(rootNode, iterations).  tree maps *)
(* each node to its fields; a node is named by the columns played from the  *)
(* root to reach it.  heap holds the Board objects the search can reach and *)
(* the arrays their column_heights refer to: tree has the value of each     *)
(* node's board, heap says which object holds it.  iterations and i are the *)
(* argument and the loop counter of the running mcts call (i = iterations   *)
(* when none runs), asked                                                   *)
(* is the sum of the iteration counts of all calls made so far, selectLog   *)
(* what the last iteration's selectChild calls saw, backprop the node and   *)
(* the argument of the last backpropagate() call, overlay the text of the   *)
(* win-rate overlays and thrown whether an iteration ended in an exception. *)
(***************************************************************************)
VARIABLES tree, heap, iterations, i, asked, selectLog, backprop, overlay, thrown

treeVars ==
    <<tree, heap, iterations, i, asked, selectLog, backprop, overlay, thrown>>

(***************************************************************************)
(* The page: history and redoStack hold Board objects, an object being its  *)
(* identity obj and its fields board; gameOver is the flag of that name.    *)
(* evals has one entry per call of updateWinRates(), in call order: the     *)
(* Board it captured, where it stands (pc), its loop counter i, its search  *)
(* tree rootNode, and how many batches it has run and how many times it has *)
(* published estimates.  timers lists the calls waiting on a setTimeout, in *)
(* the order the timeouts were set; created counts the Board objects made   *)
(* for the history and actions the user's actions.                          *)
(***************************************************************************)
VARIABLES history, redoStack, gameOver, evals, timers, created, actions

pageVars == <<history, redoStack, gameOver, evals, timers, created, actions>>

(***************************************************************************)
(* One call of Node.simulate(): nodeBoard is the board of the node it was   *)
(* called on, board (above) its tempBoard, ret the value of its last        *)
(* makeMove(), played the number of passes of its loop that made a move and *)
(* returned the value it returned.                                          *)
(***************************************************************************)
VARIABLES nodeBoard, played, returned

playVars == <<nodeBoard, played, returned>>

vars == <<boardVars, treeVars, pageVars, playVars>>

\* simulate() has not returned.
NotReturned == -2

\* No call of simulate().
NoPlay ==
    /\ nodeBoard = <<>>
    /\ played = 0
    /\ returned = NotReturned

\* No page.
NoPage ==
    /\ history = <<>>
    /\ redoStack = <<>>
    /\ gameOver = FALSE
    /\ evals = <<>>
    /\ timers = <<>>
    /\ created = 0
    /\ actions = 0

\* backprop before any backpropagate() call: no node, no winner.
NoCall == [node |-> <<-1>>, winner |-> -1]

\* No Board object.
NoHeap == [boards |-> <<>>, arrays |-> <<>>]

\* No search tree has been built.
NoTree ==
    /\ tree = <<>>
    /\ heap = NoHeap
    /\ iterations = 0
    /\ i = 0
    /\ asked = 0
    /\ selectLog = <<>>
    /\ backprop = NoCall
    /\ overlay = <<>>
    /\ thrown = FALSE

\* A complete game that ends in a draw: 42 moves, no four in a row at any point.
DrawGame ==
    <<3, 3, 0, 2, 5, 4, 5, 6, 4, 2, 2, 3, 3, 5, 5, 2, 2, 4, 3, 3, 1,
      1, 2, 1, 5, 5, 0, 4, 0, 4, 4, 6, 6, 6, 6, 0, 1, 0, 6, 0, 1, 1>>

\* A complete game whose 42nd move is the first to make four in a row.
LastMoveWinsGame ==
    <<6, 2, 2, 5, 4, 0, 4, 6, 4, 4, 0, 0, 6, 1, 1, 5, 4, 5, 4, 2, 3,
      1, 5, 5, 2, 1, 6, 2, 0, 6, 2, 1, 1, 6, 0, 5, 0, 3, 3, 3, 3, 3>>

\* Column after column, each filled to the top: makeMove itself never looks at
\* four in a row, so the calls go on after both players have one.
ColumnFillGame ==
    <<0, 0, 0, 0, 0, 0, 1, 1, 1, 1, 1, 1, 2, 2, 2, 2, 2, 2, 3, 3, 3,
      3, 3, 3, 4, 4, 4, 4, 4, 4, 5, 5, 5, 5, 5, 5, 6, 6, 6, 6, 6, 6>>

Games == <<DrawGame, LastMoveWinsGame, ColumnFillGame>>

\* Successful moves off the recorded game in one run.
MaxDev == 1

\* The board after makeMove(moves[first]), ..., makeMove(moves[last]) on board b.  The
\* list is played in two halves, which keeps the evaluation shallow.
RECURSIVE PlayMoves(_, _, _, _)
PlayMoves(b, moves, first, last) ==
    IF first > last THEN b
    ELSE IF first = last THEN MakeMove(b, moves[first])
    ELSE LET mid == (first + last) \div 2
         IN  CHOOSE after \in {PlayMoves(half, moves, mid + 1, last) :
                                   half \in {PlayMoves(b, moves, first, mid)}} : TRUE

\* The board after the first k moves of a move list, played from the empty board.
Replay(moves, k) == PlayMoves(NewBoard, moves, 1, k)

OnGame(b, col) ==
    /\ b.moveCount < Len(Games[game])
    /\ col = Games[game][b.moveCount + 1]

InitBoard ==
    /\ board = NewBoard
    /\ ret = FALSE
    /\ lastCol = -1
    /\ result = "none"
    /\ game \in 1 .. Len(Games)
    /\ dev = 0
    /\ NoTree
    /\ NoPage
    /\ NoPlay

\* board.makeMove(col): the board after the call and the value returned.
MakeMoveCall(col) ==
    /\ MakeMoveOk(board, col) => (OnGame(board, col) \/ dev < MaxDev)
    /\ board' = MakeMove(board, col)
    /\ ret' = MakeMoveOk(board, col)
    /\ lastCol' = col
    /\ dev' = IF MakeMoveOk(board, col) /\ ~OnGame(board, col) THEN dev + 1 ELSE dev
    /\ UNCHANGED <<result, game>>
    /\ UNCHANGED treeVars
    /\ UNCHANGED pageVars
    /\ UNCHANGED playVars

NextBoard == \E col \in Columns : MakeMoveCall(col)

SpecBoard == InitBoard /\ [][NextBoard]_vars


(***************************************************************************)
(* Reference notions the claims are stated with: the grid cell by cell.     *)
(***************************************************************************)
GridRows == 0 .. 5
GridCols == 0 .. 6

\* The bit index of cell (row r, column c).
CellBit(r, c) == r + c * 7

CellBits == {CellBit(r, c) : r \in GridRows, c \in GridCols}

Owns(bits, r, c) == r \in GridRows /\ c \in GridCols /\ CellBit(r, c) \in bits

LineSteps == {<<1, 0>>, <<0, 1>>, <<1, 1>>, <<-1, 1>>}

\* Four consecutive cells of one line of the grid, all in bits.
RefFour(bits) ==
    \E r \in GridRows, c \in GridCols, d \in LineSteps :
        \A n \in 0 .. 3 : Owns(bits, r + n * d[1], c + n * d[2])

\* The cells of the player who just moved.
LastMoverBits(b) == IF b.currentPlayer = 1 THEN b.player2_board ELSE b.player1_board

MoverBits(b) == IF b.currentPlayer = 1 THEN b.player1_board ELSE b.player2_board

RECURSIVE SumHeights(_, _)
SumHeights(h, c) == IF c < 0 THEN 0 ELSE h[c] + SumHeights(h, c - 1)

(***************************************************************************)
(* checkWin() as a function of the bit-sets alone.  The inputs are the      *)
(* boards of the recorded games and boards built around a line pattern:     *)
(* cells picked among MaxSpan equally spaced bit indexes, from any start    *)
(* and with any of the four strides, plus one cell anywhere.  Sentinel      *)
(* indexes are dropped, so a pattern that runs over the top of a column is  *)
(* a run broken at the column boundary.                                     *)
(***************************************************************************)
MaxSpan == 5

Strides == {1, 6, 7, 8}

PatternBits(start, stride, picks, extra) ==
    ({start + p * stride : p \in picks} \cup {extra}) \cap CellBits

\* What the player to move holds on a pattern board: row 0, columns 0 to 3.
DecoyBits == {CellBit(0, c) : c \in 0 .. 3}

TopOf(bits, c) ==
    LET rows == {r \in GridRows : CellBit(r, c) \in bits}
    IN  IF rows = {} THEN 0 ELSE 1 + CHOOSE r \in rows : \A q \in rows : q <= r

\* A board on which the player who just moved (the one other than toMove) holds
\* exactly bits.
PatternBoard(bits, toMove) ==
    LET other == DecoyBits \ bits
    IN  [player1_board  |-> IF toMove = 1 THEN other ELSE bits,
         player2_board  |-> IF toMove = 1 THEN bits ELSE other,
         column_heights |-> [c \in Columns |-> TopOf(bits \cup other, c)],
         currentPlayer  |-> toMove,
         moveCount      |-> Cardinality(bits \cup other)]

InitWin ==
    /\ \/ \E g \in 1 .. Len(Games), n \in 0 .. (ROWS * COLS) :
             board = Replay(Games[g], n)
       \/ \E start \in 0 .. (COLS * H - 1), stride \in Strides,
             picks \in SUBSET (0 .. (MaxSpan - 1)),
             extra \in CellBits \cup {-1}, toMove \in Players :
             board = PatternBoard(PatternBits(start, stride, picks, extra), toMove)
    /\ ret = FALSE
    /\ lastCol = -1
    /\ result = "none"
    /\ game = 1
    /\ dev = 0
    /\ NoTree
    /\ NoPage
    /\ NoPlay

\* board.checkWin()
CheckWinCall ==
    /\ result = "none"
    /\ result' = IF CheckWin(board) THEN "win" ELSE "no win"
    /\ UNCHANGED <<board, ret, lastCol, game, dev>>
    /\ UNCHANGED treeVars
    /\ UNCHANGED pageVars
    /\ UNCHANGED playVars

NextWin == CheckWinCall

SpecWin == InitWin /\ [][NextWin]_vars

(***************************************************************************)
(* C1: checkWin() is true iff the player who just moved (the one other      *)
(* than currentPlayer) owns four consecutive cells of a horizontal,         *)
(* vertical or diagonal line of the 6x7 grid, checked cell by cell; three   *)
(* in a row, a run with a gap and a run that wraps over a column boundary   *)
(* are no win.                                                              *)
(***************************************************************************)
C1_CheckWinIsFourInARow ==
    result # "none" => (result = "win" <=> RefFour(LastMoverBits(board)))

\* Player 1 holds exactly row 0, columns 0 to 3, player 2 is to move, and
\* checkWin() has answered true.
C1_Witness ==
    /\ result = "win"
    /\ board.currentPlayer = 2
    /\ board.player1_board = {CellBit(0, c) : c \in 0 .. 3}

(***************************************************************************)
(* C2: makeMove(col) on a column that already holds ROWS discs returns      *)
(* false and leaves every field of the board unchanged.                     *)
(***************************************************************************)
C2_FullColumnMoveRejected ==
    [][(lastCol' \in Columns /\ board.column_heights[lastCol'] >= 6)
        => (ret' = FALSE /\ board' = board)]_vars

\* A seventh move into a column of six discs was just refused.
C2_Witness ==
    /\ lastCol \in Columns
    /\ ret = FALSE
    /\ board.column_heights[lastCol] = 6
    /\ board.moveCount < 42

(***************************************************************************)
(* C3: a successful makeMove(col) sets exactly bit row + col*7 for the      *)
(* mover, adds one to that column's height and to moveCount, flips          *)
(* currentPlayer between 1 and 2, and changes nothing else.                 *)
(***************************************************************************)
C3_MoveEffect(b, nb, col) ==
    LET row == b.column_heights[col]
        pos == row + col * 7
    IN  /\ pos \notin MoverBits(b)
        /\ LastMoverBits(nb) = MoverBits(b) \cup {pos}
        /\ MoverBits(nb) = LastMoverBits(b)
        /\ nb.column_heights[col] = row + 1
        /\ \A c \in Columns \ {col} : nb.column_heights[c] = b.column_heights[c]
        /\ nb.moveCount = b.moveCount + 1
        /\ b.currentPlayer \in Players
        /\ nb.currentPlayer \in Players \ {b.currentPlayer}

C3_SuccessfulMoveEffect ==
    [][(lastCol' \in Columns /\ board.column_heights[lastCol'] < 6)
        => (ret' = TRUE /\ C3_MoveEffect(board, board', lastCol'))]_vars

\* Player 1 has just played column 3 on the empty board.
C3_Witness ==
    /\ ret = TRUE
    /\ lastCol = 3
    /\ board.moveCount = 1
    /\ board.column_heights[3] = 1
    /\ board.currentPlayer = 2

(***************************************************************************)
(* C4: in every board reached by makeMove calls, successful or failed, the  *)
(* two players' bit-sets have no bit in common.                             *)
(***************************************************************************)
C4_Disjoint == board.player1_board \cap board.player2_board = {}

\* Both players have discs in one column and a move has just been refused.
C4_Witness ==
    /\ ret = FALSE
    /\ \E c \in Columns :
          /\ \E r \in GridRows : CellBit(r, c) \in board.player1_board
          /\ \E r \in GridRows : CellBit(r, c) \in board.player2_board

(***************************************************************************)
(* C5: in every column the occupied cells are exactly rows 0 .. height-1,   *)
(* the height is within 0..6 and the sentinel bit (row 6) is never set.     *)
(***************************************************************************)
C5_Gravity ==
    LET occupied == board.player1_board \cup board.player2_board
    IN  /\ \A c \in GridCols :
              /\ board.column_heights[c] \in 0 .. 6
              /\ {r \in 0 .. 6 : CellBit(r, c) \in occupied}
                     = 0 .. (board.column_heights[c] - 1)
        /\ occupied \subseteq CellBits

\* A full column beside a partly filled one and an empty one.
C5_Witness ==
    /\ \E c \in Columns : board.column_heights[c] = 6
    /\ \E c \in Columns : board.column_heights[c] \in 1 .. 5
    /\ \E c \in Columns : board.column_heights[c] = 0

(***************************************************************************)
(* C6: moveCount is the number of set bits of both bit-sets together, and   *)
(* the sum of the column heights, and never exceeds 42.                     *)
(***************************************************************************)
C6_MoveCount ==
    /\ board.moveCount
           = Cardinality(board.player1_board) + Cardinality(board.player2_board)
    /\ board.moveCount = SumHeights(board.column_heights, 6)
    /\ board.moveCount <= 42

\* The board is full and a further move has been refused.
C6_Witness == board.moveCount = 42 /\ ret = FALSE

(***************************************************************************)
(* C7: isDraw() is true iff moveCount is exactly 42 and no player has four  *)
(* in a row.  This is the claim as stated; a board filled by a winning      *)
(* 42nd move contradicts it.                                                *)
(***************************************************************************)
C7_DrawIffFullAndNoFour ==
    IsDraw(board) <=>
        /\ board.moveCount = 42
        /\ ~RefFour(board.player1_board)
        /\ ~RefFour(board.player2_board)

(***************************************************************************)
(* C7, amended: isDraw() is true iff moveCount is exactly 42, that is iff   *)
(* all seven columns are full, whether or not there is a four in a row; on  *)
(* boards without a four in a row it is true iff moveCount is 42.           *)
(***************************************************************************)
C7_DrawIffFull ==
    /\ IsDraw(board) <=> board.moveCount = 42
    /\ IsDraw(board) <=> \A c \in GridCols : board.column_heights[c] = 6
    /\ (~RefFour(board.player1_board) /\ ~RefFour(board.player2_board))
          => (IsDraw(board) <=> board.moveCount = 42)

\* A full board on which the player who moved last has four in a row.
C7_Witness ==
    /\ IsDraw(board)
    /\ RefFour(LastMoverBits(board))


(***************************************************************************)
(* class Node                                                               *)
(***************************************************************************)
\* The root's name, and the parent field of the root (null).
Root == <<>>
Null == <<-1>>

ColumnSeq == [k \in 1 .. COLS |-> k - 1]

\* Variant: the loop runs from column COLS - 1 down to 0.
GetLegalMovesDescending(b) ==
    SelectSeq([k \in 1 .. COLS |-> COLS - k], LAMBDA col : b.column_heights[col] < ROWS)

\* getLegalMoves() on a board: the columns with room, ascending.
GetLegalMoves(b) == SelectSeq(ColumnSeq, LAMBDA col : b.column_heights[col] < ROWS)

\* new Node(board, parent)
NewNode(b, parent) ==
    LET win  == CheckWin(b)
        draw == IsDraw(b)
    IN  [board          |-> b,
         parent         |-> parent,
         children       |-> <<>>,
         wins           |-> 0,
         visits         |-> 0,
         isTerminalWin  |-> win,
         isTerminalDraw |-> draw,
         untriedMoves   |-> IF win \/ draw THEN <<>> ELSE GetLegalMoves(b)]

(***************************************************************************)
(* ucb1() in fixed point.  A score is an integer number of 1/ScoreScale;    *)
(* Math.log is summed from ln(k/(k-1)) = 2 atanh(1/(2k-1)) in units of      *)
(* 1/LogScale and Math.sqrt is the integer square root.  Every rounding is  *)
(* downwards, so a fixed-point score is below the real one by less than     *)
(* ScoreSlack units; two scores closer than that are compared both ways.    *)
(***************************************************************************)
ScoreScale == 10000
LogScale == ScoreScale * ScoreScale
ScoreSlack == 3
Infinity == 1000000000

\* Sum over j of LogScale / ((2j+1) m^(2j+1)), given power = LogScale / m^(2j+1).
RECURSIVE AtanhInverse(_, _, _)
AtanhInverse(m, power, j) ==
    IF power = 0 THEN 0
    ELSE power \div (2 * j + 1) + AtanhInverse(m, power \div (m * m), j + 1)

\* Math.log(n) for an integer n >= 1, in units of 1/LogScale.
RECURSIVE Log(_)
Log(n) ==
    IF n <= 1 THEN 0
    ELSE Log(n - 1) + 2 * AtanhInverse(2 * n - 1, LogScale \div (2 * n - 1), 0)

\* The largest r in lo .. hi with r * r <= x.
RECURSIVE SqrtBetween(_, _, _)
SqrtBetween(x, lo, hi) ==
    IF lo = hi THEN lo
    ELSE LET mid == (lo + hi + 1) \div 2
         IN  IF mid * mid <= x THEN SqrtBetween(x, mid, hi)
             ELSE SqrtBetween(x, lo, mid - 1)

\* Math.sqrt(x / LogScale), in units of 1/ScoreScale.
Sqrt(x) == SqrtBetween(x, 0, 46340)

\* ucb1() of node id.
Ucb1(t, id) ==
    LET node == t[id]
    IN  IF node.visits = 0 THEN Infinity
        ELSE (node.wins * ScoreScale) \div node.visits
                 + Sqrt((2 * Log(t[node.parent].visits)) \div node.visits)

\* The answers score > bestScore can give, child being the node scored and best
\* the node bestScore came from (Null while bestScore is still -1).
ScoreGreater(t, child, best) ==
    IF best = Null THEN {Ucb1(t, child) > -1 * ScoreScale}
    ELSE IF t[child].wins = t[best].wins /\ t[child].visits = t[best].visits
         THEN {FALSE}
    ELSE IF Ucb1(t, child) > Ucb1(t, best) + ScoreSlack THEN {TRUE}
    ELSE IF Ucb1(t, child) < Ucb1(t, best) - ScoreSlack THEN {FALSE}
    ELSE {TRUE, FALSE}

\* The for loop of selectChild() from child number k on.
RECURSIVE SelectLoop(_, _, _, _, _)
SelectLoop(t, id, k, selected, best) ==
    IF k > Len(t[id].children) THEN {selected}
    ELSE LET child == t[id].children[k]
         IN  UNION {IF greater THEN SelectLoop(t, id, k + 1, child, child)
                               ELSE SelectLoop(t, id, k + 1, selected, best) :
                       greater \in ScoreGreater(t, child, best)}

\* selectChild() of node id: the children it can return.
SelectChild(t, id) == SelectLoop(t, id, 1, t[id].children[1], Null)

\* The child expand() creates on node id, and the tree after expand().
ExpandChild(t, id) == Append(id, t[id].untriedMoves[Len(t[id].untriedMoves)])

\* Variant: the move is read from the end of untriedMoves and left there.
ExpandKeepsUntried(t, id) ==
    LET move     == t[id].untriedMoves[Len(t[id].untriedMoves)]
        newBoard == MakeMove(CopyBoard(t[id].board), move)
        child    == ExpandChild(t, id)
    IN  (child :> NewNode(newBoard, id))
            @@ [t EXCEPT ![id].children = Append(@, child)]

Expand(t, id) ==
    LET move     == t[id].untriedMoves[Len(t[id].untriedMoves)]
        newBoard == MakeMove(CopyBoard(t[id].board), move)
        child    == ExpandChild(t, id)
    IN  (child :> NewNode(newBoard, id))
            @@ [t EXCEPT ![id].untriedMoves = SubSeq(@, 1, Len(@) - 1),
                         ![id].children = Append(@, child)]

\* What simulate() returns when legalMoves is empty: the move is undefined and
\* makeMove throws.
Throws == -1

\* Variant: the loop tests isDraw() before checkWin().
RECURSIVE SimulateLoopDrawFirst(_)
SimulateLoopDrawFirst(tempBoard) ==
    IF IsDraw(tempBoard) THEN {0}
    ELSE IF CheckWin(tempBoard) THEN {3 - tempBoard.currentPlayer}
    ELSE LET legalMoves == GetLegalMoves(tempBoard)
         IN  IF Len(legalMoves) = 0 THEN {Throws}
             ELSE UNION {SimulateLoopDrawFirst(MakeMove(tempBoard, legalMoves[k])) :
                            k \in 1 .. Len(legalMoves)}

\* The while loop of simulate() on tempBoard: the values it can return, over
\* all random draws.
RECURSIVE SimulateLoop(_)
SimulateLoop(tempBoard) ==
    IF CheckWin(tempBoard) THEN {3 - tempBoard.currentPlayer}
    ELSE IF IsDraw(tempBoard) THEN {0}
    ELSE LET legalMoves == GetLegalMoves(tempBoard)
         IN  IF Len(legalMoves) = 0 THEN {Throws}
             ELSE UNION {SimulateLoop(MakeMove(tempBoard, legalMoves[k])) :
                            k \in 1 .. Len(legalMoves)}

\* simulate() of a node with board b
Simulate(b) == SimulateLoop(CopyBoard(b))

\* Variant: the loop runs while temp.parent !== null, so it stops below the root.
RECURSIVE BackpropagateBelowRoot(_, _, _)
BackpropagateBelowRoot(t, id, winner) ==
    LET temp     == t[id]
        credited == temp.parent # Null /\ t[temp.parent].board.currentPlayer = winner
        counted  == [t EXCEPT ![id].visits = @ + 1,
                              ![id].wins = IF credited THEN @ + 1 ELSE @]
    IN  IF temp.parent = Null THEN t
        ELSE BackpropagateBelowRoot(counted, temp.parent, winner)

\* Variant: a node counts either the win or the visit, not both.
RECURSIVE BackpropagateWinOrVisit(_, _, _)
BackpropagateWinOrVisit(t, id, winner) ==
    LET temp     == t[id]
        credited == temp.parent # Null /\ t[temp.parent].board.currentPlayer = winner
        counted  == [t EXCEPT ![id].visits = IF credited THEN @ ELSE @ + 1,
                              ![id].wins = IF credited THEN @ + 1 ELSE @]
    IN  IF temp.parent = Null THEN counted
        ELSE BackpropagateWinOrVisit(counted, temp.parent, winner)

\* Variant: a node is credited when its own board's currentPlayer is the winner.
RECURSIVE BackpropagateOwnBoard(_, _, _)
BackpropagateOwnBoard(t, id, winner) ==
    LET temp     == t[id]
        credited == temp.board.currentPlayer = winner
        counted  == [t EXCEPT ![id].visits = @ + 1,
                              ![id].wins = IF credited THEN @ + 1 ELSE @]
    IN  IF temp.parent = Null THEN counted
        ELSE BackpropagateOwnBoard(counted, temp.parent, winner)

\* The tree after temp.backpropagate(winner), from node id up to the root.
RECURSIVE Backpropagate(_, _, _)
Backpropagate(t, id, winner) ==
    LET temp     == t[id]
        credited == temp.parent # Null /\ t[temp.parent].board.currentPlayer = winner
        counted  == [t EXCEPT ![id].visits = @ + 1,
                              ![id].wins = IF credited THEN @ + 1 ELSE @]
    IN  IF temp.parent = Null THEN counted
        ELSE Backpropagate(counted, temp.parent, winner)


(***************************************************************************)
(* The Board objects.  h.boards maps an object to its fields, of which      *)
(* column_heights is a reference to an array of h.arrays.  The board of a   *)
(* node is the object named like the node, Live is the Board at the top of  *)
(* the history and Temp the tempBoard of simulate().                        *)
(***************************************************************************)
Live == <<-2>>
Temp == <<-3>>

\* The fields of object obj, column_heights being the array's contents.
BoardAt(h, obj) == [h.boards[obj] EXCEPT !.column_heights = h.arrays[@]]

\* Variant: this.column_heights = other.column_heights, the same array.
NewBoardSharingHeights(h, obj, other) ==
    [boards |-> (obj :> h.boards[other]) @@ h.boards,
     arrays |-> h.arrays]

\* obj = new Board(other): the fields are copied and column_heights is a new
\* array with the contents of other's.
NewBoardFrom(h, obj, other) ==
    [boards |-> (obj :> [h.boards[other] EXCEPT !.column_heights = obj]) @@ h.boards,
     arrays |-> (obj :> h.arrays[h.boards[other].column_heights]) @@ h.arrays]

\* obj.makeMove(col): writes the fields of obj and the array it refers to.
MakeMoveOn(h, obj, col) ==
    LET moved   == MakeMove(BoardAt(h, obj), col)
        heights == h.boards[obj].column_heights
    IN  [boards |-> [h.boards EXCEPT ![obj] = [moved EXCEPT !.column_heights = heights]],
         arrays |-> [h.arrays EXCEPT ![heights] = moved.column_heights]]

\* The heap once obj is out of reach.
Release(h, obj) ==
    [boards |-> [o \in DOMAIN h.boards \ {obj} |-> h.boards[o]],
     arrays |-> [a \in DOMAIN h.arrays \ {obj} |-> h.arrays[a]]]

\* expand() of node id, on the objects.
ExpandOn(h, t, id) ==
    LET move  == t[id].untriedMoves[Len(t[id].untriedMoves)]
        child == ExpandChild(t, id)
    IN  MakeMoveOn(NewBoardFrom(h, child, id), child, move)

\* The while loop of simulate() on the object tempBoard: the heaps it can leave.
RECURSIVE SimulateLoopOn(_)
SimulateLoopOn(h) ==
    LET tempBoard  == BoardAt(h, Temp)
        legalMoves == GetLegalMoves(tempBoard)
    IN  IF CheckWin(tempBoard) \/ IsDraw(tempBoard) \/ Len(legalMoves) = 0 THEN {h}
        ELSE UNION {SimulateLoopOn(MakeMoveOn(h, Temp, legalMoves[k])) :
                       k \in 1 .. Len(legalMoves)}

\* simulate() of node id, on the objects; tempBoard is out of reach afterwards.
SimulateOn(h, id) ==
    {Release(after, Temp) : after \in SimulateLoopOn(NewBoardFrom(h, Temp, id))}

\* One pass of the for loop of mcts on the objects, t being the tree before it
\* and node the node it simulates and backpropagates from.
IterationOn(h, t, node) ==
    LET leaf == SubSeq(node, 1, Len(node) - 1)
    IN  UNION {LET reached == BoardAt(expanded, node)
               IN  IF CheckWin(reached) \/ IsDraw(reached) THEN {expanded}
                   ELSE SimulateOn(expanded, node) :
                  expanded \in {IF node \in DOMAIN t THEN h ELSE ExpandOn(h, t, leaf)}}

(***************************************************************************)
(* mcts(rootNode, iterations)                                               *)
(***************************************************************************)
\* What one selectChild() call on node saw: the node, how many untried moves it
\* had and the visit counts of its children.
SelectEntry(t, node) ==
    [node         |-> node,
     untriedMoves |-> Len(t[node].untriedMoves),
     childVisits  |-> [k \in 1 .. Len(t[node].children) |->
                          t[t[node].children[k]].visits]]

\* Variant: the while loop tests children.length > 0 alone.
RECURSIVE SelectionWhileChildren(_, _, _)
SelectionWhileChildren(t, node, log) ==
    IF Len(t[node].children) > 0
    THEN UNION {SelectionWhileChildren(t, child, Append(log, SelectEntry(t, node))) :
                   child \in SelectChild(t, node)}
    ELSE {[node |-> node, log |-> log]}

\* 1. Selection, from node on: the nodes the while loop can stop at, each with
\* the selectChild() calls made on the way.
RECURSIVE Selection(_, _, _)
Selection(t, node, log) ==
    IF Len(t[node].untriedMoves) = 0 /\ Len(t[node].children) > 0
    THEN UNION {Selection(t, child, Append(log, SelectEntry(t, node))) :
                   child \in SelectChild(t, node)}
    ELSE {[node |-> node, log |-> log]}

\* One pass of the for loop: selection, expansion, simulation, backpropagation.
\* The outcomes differ by the random playout.
MctsIteration(t) ==
    UNION {LET leaf     == sel.node
               expands  == /\ ~t[leaf].isTerminalWin
                           /\ ~t[leaf].isTerminalDraw
                           /\ Len(t[leaf].untriedMoves) > 0
               expanded == IF expands THEN Expand(t, leaf) ELSE t
               node     == IF expands THEN ExpandChild(t, leaf) ELSE leaf
               winners  == IF expanded[node].isTerminalWin
                           THEN {3 - expanded[node].board.currentPlayer}
                           ELSE IF expanded[node].isTerminalDraw THEN {0}
                           ELSE Simulate(expanded[node].board)
           IN  {[tree   |-> IF winner = Throws THEN expanded
                            ELSE Backpropagate(expanded, node, winner),
                 log    |-> sel.log,
                 call   |-> [node |-> node, winner |-> winner],
                 thrown |-> winner = Throws] : winner \in winners} :
              sel \in Selection(t, Root, <<>>)}

\* displayWinRates: the column of a child, found by comparing column heights with
\* the root's (-1 when none differs).
MoveOf(t, child) ==
    LET changed == {c \in Columns : t[child].board.column_heights[c]
                                       # t[Root].board.column_heights[c]}
    IN  IF changed = {} THEN -1
        ELSE CHOOSE c \in changed : \A other \in changed : c <= other

\* An overlay without text.
NoText == -1

\* (winRate * 100).toFixed(1), as a whole number of tenths of a percent.
WinRateText(wins, visits) ==
    IF visits > 0 THEN (2000 * wins + visits) \div (2 * visits) ELSE 0

\* The overlay texts after displayWinRates(rootNode) on tree t, present being
\* the columns that have an overlay element.
DisplayWinRatesOn(t, texts, present) ==
    [c \in Columns |->
        LET shown == {k \in 1 .. Len(t[Root].children) :
                         MoveOf(t, t[Root].children[k]) = c}
        IN  IF shown # {} /\ c \in present
            THEN LET child == t[t[Root].children[CHOOSE k \in shown : TRUE]]
                 IN  WinRateText(child.wins, child.visits)
            ELSE texts[c]]

(***************************************************************************)
(* The search on the positions at most MaxEmpty moves before the end of a   *)
(* recorded game, called in batches of at most MaxBatch iterations,         *)
(* MaxIterations in all.                                                    *)
(***************************************************************************)
MaxEmpty == 6
MaxIterations == 7
MaxBatch == 3

InitMcts ==
    /\ \E g \in 1 .. Len(Games), n \in (ROWS * COLS - MaxEmpty) .. (ROWS * COLS) :
          /\ game = g
          /\ board = Replay(Games[g], n)
          \* const rootNode = new Node(new Board(currentBoard));
          /\ tree = (Root :> NewNode(CopyBoard(Replay(Games[g], n)), Null))
          /\ heap = NewBoardFrom([boards |-> (Live :> [Replay(Games[g], n)
                                                         EXCEPT !.column_heights = Live]),
                                  arrays |-> (Live :> Replay(Games[g], n).column_heights)],
                                 Root, Live)
    /\ ret = FALSE
    /\ lastCol = -1
    /\ result = "none"
    /\ dev = 0
    /\ iterations = 0
    /\ i = 0
    /\ asked = 0
    /\ selectLog = <<>>
    /\ backprop = NoCall
    /\ overlay = [c \in Columns |-> NoText]
    /\ thrown = FALSE
    /\ NoPage
    /\ NoPlay

\* Variant: mcts enters its loop without looking at the root's legal moves.
MctsCallAlwaysLoops(n) ==
    /\ Root \in DOMAIN tree
    /\ ~thrown
    /\ i = iterations
    /\ asked + n <= MaxIterations
    /\ asked' = asked + n
    /\ iterations' = n /\ i' = 0
    /\ UNCHANGED <<tree, heap, selectLog, backprop, overlay, thrown>>
    /\ UNCHANGED boardVars
    /\ UNCHANGED pageVars
    /\ UNCHANGED playVars

\* mcts(rootNode, n) is called: it returns at once when the root's board has no
\* legal move, and otherwise enters its loop.
MctsCall(n) ==
    /\ Root \in DOMAIN tree
    /\ ~thrown
    /\ i = iterations
    /\ asked + n <= MaxIterations
    /\ asked' = asked + n
    /\ IF Len(GetLegalMoves(tree[Root].board)) = 0
       THEN UNCHANGED <<iterations, i>>
       ELSE iterations' = n /\ i' = 0
    /\ UNCHANGED <<tree, heap, selectLog, backprop, overlay, thrown>>
    /\ UNCHANGED boardVars
    /\ UNCHANGED pageVars
    /\ UNCHANGED playVars

\* One iteration of the running mcts call.
MctsStep ==
    /\ ~thrown
    /\ i < iterations
    /\ \E outcomes \in {MctsIteration(tree)} :
          \E node \in {r.call.node : r \in outcomes} :
             /\ heap' \in IterationOn(heap, tree, node)
             /\ \E r \in {o \in outcomes : o.call.node = node} :
                   /\ tree' = r.tree
                   /\ selectLog' = r.log
                   /\ backprop' = r.call
                   /\ thrown' = r.thrown
    /\ i' = i + 1
    /\ UNCHANGED <<iterations, asked, overlay>>
    /\ UNCHANGED boardVars
    /\ UNCHANGED pageVars
    /\ UNCHANGED playVars

\* displayWinRates(rootNode), between two mcts calls.  A column has an overlay
\* while it is playable.
DisplayWinRates ==
    /\ Root \in DOMAIN tree
    /\ ~thrown
    /\ i = iterations
    /\ overlay' = DisplayWinRatesOn(tree, overlay,
                                     {c \in Columns :
                                         tree[Root].board.column_heights[c] < ROWS})
    /\ UNCHANGED <<tree, heap, iterations, i, asked, selectLog, backprop, thrown>>
    /\ UNCHANGED boardVars
    /\ UNCHANGED pageVars
    /\ UNCHANGED playVars

NextMcts ==
    \/ \E n \in 1 .. MaxBatch : MctsCall(n)
    \/ MctsStep
    \/ DisplayWinRates

SpecMcts == InitMcts /\ [][NextMcts]_vars

(***************************************************************************)
(* The page and its scheduler.  A task of the event loop is a user action   *)
(* or the expiry of a timeout; it runs to the end, together with every      *)
(* continuation that waits on a settled promise, before the next task       *)
(* starts.  The history at the start is that of a recorded game clicked     *)
(* through to at most MaxOpen empty cells, each position a Board object of  *)
(* its own; a search is run on positions with at most MaxOpen empty cells;  *)
(* the user acts at most MaxActions times.                                  *)
(***************************************************************************)
MaxOpen == 3
MaxActions == 3
TOTAL_SIMULATIONS == 4
BATCH_SIZE == 2

\* The number of passes of for (let i = 0; i < TOTAL_SIMULATIONS / BATCH_SIZE; i++).
Batches == (TOTAL_SIMULATIONS + BATCH_SIZE - 1) \div BATCH_SIZE

\* The overlay text '...'.
Dots == -2

\* The for loop of mcts on tree t, n iterations to go: the trees it can leave,
\* and whether an iteration threw.
RECURSIVE MctsLoop(_, _)
MctsLoop(t, n) ==
    IF n = 0 THEN {[tree |-> t, thrown |-> FALSE]}
    ELSE UNION {IF r.thrown THEN {[tree |-> r.tree, thrown |-> TRUE]}
                ELSE MctsLoop(r.tree, n - 1) : r \in MctsIteration(t)}

\* mcts(rootNode, n) as one call.
Mcts(t, n) ==
    IF Len(GetLegalMoves(t[Root].board)) = 0 THEN {[tree |-> t, thrown |-> FALSE]}
    ELSE MctsLoop(t, n)

\* history[history.length - 1]
Top(hist) == hist[Len(hist)]

\* Variant: the for loop of updateWinRates() has no staleness check.
StaleNever(currentBoard, hist) == FALSE

\* currentBoard !== history[history.length - 1]: the two are not the same object.
Stale(currentBoard, hist) == currentBoard # Top(hist)

\* The columns whose lowest empty cell renderBoard made playable: these cells
\* have the click listener and the win-rate overlay.
Playable(b, over) == IF over THEN {} ELSE {c \in Columns : b.column_heights[c] < ROWS}

\* Variant: a continuation that waits on the promise of mcts waits for a task of
\* its own, so other tasks can start before it.
IdleBetweenTasks == TRUE

\* No continuation waits on a settled promise: the next task can start.
Idle == \A e \in 1 .. Len(evals) : evals[e].pc # "mcts"

\* updateUI(), hist and over being the history and gameOver it finds:
\* renderBoard() makes the overlays and updateWinRates() runs up to its first
\* await, or returns before it.
UpdateUI(hist, over) ==
    LET currentBoard == Top(hist)
        legalMoves   == GetLegalMoves(currentBoard.board)
        waits        == ~over /\ Len(legalMoves) > 0
    IN  /\ overlay' = [c \in Columns |->
                          IF waits /\ c \in Playable(currentBoard.board, over)
                          THEN Dots ELSE NoText]
        /\ evals' = Append(evals, [currentBoard |-> currentBoard,
                                   pc           |-> IF waits THEN "timeout" ELSE "returned",
                                   i            |-> -1,
                                   rootNode     |-> <<>>,
                                   batches      |-> 0,
                                   published    |-> 0])
        /\ timers' = IF waits THEN Append(timers, Len(evals) + 1) ELSE timers

\* The variables of the single caller of mcts, which the page does not have.
callVars == <<tree, heap, iterations, i, asked, selectLog, backprop, thrown>>

InitPage ==
    /\ \E g \in 1 .. Len(Games), n \in (ROWS * COLS - MaxOpen) .. (ROWS * COLS) :
          /\ \A k \in 0 .. (n - 1) : ~CheckWin(Replay(Games[g], k))
          /\ game = g
          /\ history = [k \in 1 .. (n + 1) |->
                           [obj |-> k, board |-> Replay(Games[g], k - 1)]]
          /\ created = n + 1
          /\ gameOver = CheckWin(Replay(Games[g], n))
          /\ LET currentBoard == [obj |-> n + 1, board |-> Replay(Games[g], n)]
                 waits == /\ ~CheckWin(currentBoard.board)
                          /\ Len(GetLegalMoves(currentBoard.board)) > 0
             IN  /\ overlay = [c \in Columns |->
                                  IF waits /\ currentBoard.board.column_heights[c] < ROWS
                                  THEN Dots ELSE NoText]
                 /\ evals = <<[currentBoard |-> currentBoard,
                               pc           |-> IF waits THEN "timeout" ELSE "returned",
                               i            |-> -1,
                               rootNode     |-> <<>>,
                               batches      |-> 0,
                               published    |-> 0]>>
                 /\ timers = IF waits THEN <<1>> ELSE <<>>
    /\ redoStack = <<>>
    /\ actions = 0
    /\ board = NewBoard
    /\ ret = FALSE
    /\ lastCol = -1
    /\ result = "none"
    /\ dev = 0
    /\ tree = <<>>
    /\ heap = NoHeap
    /\ iterations = 0
    /\ i = 0
    /\ asked = 0
    /\ selectLog = <<>>
    /\ backprop = NoCall
    /\ thrown = FALSE
    /\ NoPlay

\* The script has run to its end: initGame() has made the history and the
\* listeners are registered.
Loaded == history # <<>>

\* A click on the playable cell of column col.
HandleColumnClick(col) ==
    /\ Loaded
    /\ Idle
    /\ actions < MaxActions
    /\ col \in Playable(Top(history).board, gameOver)
    /\ ~gameOver
    /\ LET newBoard == [obj   |-> created + 1,
                        board |-> MakeMove(CopyBoard(Top(history).board), col)]
       IN  /\ MakeMoveOk(Top(history).board, col)
           /\ history' = Append(history, newBoard)
           /\ redoStack' = <<>>
           /\ gameOver' = (CheckWin(newBoard.board) \/ gameOver)
           /\ UpdateUI(Append(history, newBoard), CheckWin(newBoard.board) \/ gameOver)
    /\ created' = created + 1
    /\ actions' = actions + 1
    /\ UNCHANGED boardVars
    /\ UNCHANGED callVars
    /\ UNCHANGED playVars

\* A click on the undo button.
Undo ==
    /\ Loaded
    /\ Idle
    /\ actions < MaxActions
    /\ Len(history) > 1
    /\ redoStack' = Append(redoStack, Top(history))
    /\ history' = SubSeq(history, 1, Len(history) - 1)
    /\ gameOver' = FALSE
    /\ UpdateUI(SubSeq(history, 1, Len(history) - 1), FALSE)
    /\ actions' = actions + 1
    /\ UNCHANGED created
    /\ UNCHANGED boardVars
    /\ UNCHANGED callVars
    /\ UNCHANGED playVars

\* Variant: redo() leaves gameOver as undo() set it.
RedoKeepsGameOver ==
    /\ Loaded
    /\ Idle
    /\ actions < MaxActions
    /\ Len(redoStack) > 0
    /\ LET currentBoard == Top(redoStack)
       IN  /\ history' = Append(history, currentBoard)
           /\ redoStack' = SubSeq(redoStack, 1, Len(redoStack) - 1)
           /\ gameOver' = gameOver
           /\ UpdateUI(Append(history, currentBoard), gameOver)
    /\ actions' = actions + 1
    /\ UNCHANGED created
    /\ UNCHANGED boardVars
    /\ UNCHANGED callVars
    /\ UNCHANGED playVars

\* A click on the redo button.
Redo ==
    /\ Loaded
    /\ Idle
    /\ actions < MaxActions
    /\ Len(redoStack) > 0
    /\ LET currentBoard == Top(redoStack)
           over         == CheckWin(currentBoard.board) \/ IsDraw(currentBoard.board)
       IN  /\ history' = Append(history, currentBoard)
           /\ redoStack' = SubSeq(redoStack, 1, Len(redoStack) - 1)
           /\ gameOver' = over
           /\ UpdateUI(Append(history, currentBoard), over)
    /\ actions' = actions + 1
    /\ UNCHANGED created
    /\ UNCHANGED boardVars
    /\ UNCHANGED callVars
    /\ UNCHANGED playVars

\* A click on the reset button: initGame().
InitGame ==
    /\ Loaded
    /\ Idle
    /\ actions < MaxActions
    /\ history' = <<[obj |-> created + 1, board |-> NewBoard]>>
    /\ redoStack' = <<>>
    /\ gameOver' = FALSE
    /\ UpdateUI(<<[obj |-> created + 1, board |-> NewBoard]>>, FALSE)
    /\ created' = created + 1
    /\ actions' = actions + 1
    /\ UNCHANGED boardVars
    /\ UNCHANGED callVars
    /\ UNCHANGED playVars

\* The timeout that was set first expires, between two tasks: its callback is
\* the next task.
TimerFires ==
    /\ Idle
    /\ timers # <<>>
    /\ timers' = Tail(timers)

\* The first timeout in timers expires and the call that set it goes on: after
\* the first timeout it builds rootNode and enters the for loop, after a later
\* one it increments the loop counter; it leaves the loop at the end or when the
\* Board it captured is not the top of the history, and otherwise runs a batch
\* and waits on the promise of mcts.
TimeoutExpires ==
    /\ TimerFires
    /\ LET e        == Head(timers)
           eval     == evals[e]
           rootNode == IF eval.rootNode = <<>>
                       THEN (Root :> NewNode(CopyBoard(eval.currentBoard.board), Null))
                       ELSE eval.rootNode
           leaves   == \/ eval.i + 1 >= Batches
                       \/ Stale(eval.currentBoard, history)
       IN  /\ leaves \/ ROWS * COLS - eval.currentBoard.board.moveCount <= MaxOpen
           /\ IF leaves
              THEN evals' = [evals EXCEPT ![e].pc = "returned",
                                          ![e].i = eval.i + 1,
                                          ![e].rootNode = <<>>]
              ELSE \E r \in Mcts(rootNode, BATCH_SIZE) :
                      evals' = [evals EXCEPT ![e].pc = IF r.thrown THEN "thrown"
                                                       ELSE "mcts",
                                             ![e].i = eval.i + 1,
                                             ![e].rootNode = r.tree,
                                             ![e].batches = @ + 1]
    /\ UNCHANGED <<history, redoStack, gameOver, created, actions, overlay>>
    /\ UNCHANGED boardVars
    /\ UNCHANGED callVars
    /\ UNCHANGED playVars

\* Variant: the loop body ends without the setTimeout that takes it to its
\* next pass.
MctsSettlesSetsNoTimeout(e) ==
    /\ evals[e].pc = "mcts"
    /\ overlay' = DisplayWinRatesOn(evals[e].rootNode, overlay,
                                    Playable(Top(history).board, gameOver))
    /\ evals' = [evals EXCEPT ![e].pc = "timeout", ![e].published = @ + 1]
    /\ timers' = timers
    /\ UNCHANGED <<history, redoStack, gameOver, created, actions>>
    /\ UNCHANGED boardVars
    /\ UNCHANGED callVars
    /\ UNCHANGED playVars

\* The call e that waits on the promise of mcts goes on: displayWinRates(), then
\* the next timeout.
MctsSettles(e) ==
    /\ evals[e].pc = "mcts"
    /\ overlay' = DisplayWinRatesOn(evals[e].rootNode, overlay,
                                    Playable(Top(history).board, gameOver))
    /\ evals' = [evals EXCEPT ![e].pc = "timeout", ![e].published = @ + 1]
    /\ timers' = Append(timers, e)
    /\ UNCHANGED <<history, redoStack, gameOver, created, actions>>
    /\ UNCHANGED boardVars
    /\ UNCHANGED callVars
    /\ UNCHANGED playVars

NextPage ==
    \/ \E col \in Columns : HandleColumnClick(col)
    \/ Undo
    \/ Redo
    \/ InitGame
    \/ TimeoutExpires
    \/ \E e \in 1 .. Len(evals) : MctsSettles(e)

SpecPage == InitPage /\ [][NextPage]_vars

\* The top of history hist has at most MaxOpen empty cells.
InWindow(hist) == ROWS * COLS - Top(hist).board.moveCount <= MaxOpen

(***************************************************************************)
(* The page with the browser's scheduling: a timeout that has been set      *)
(* expires and its callback runs, and the continuation of a settled promise *)
(* runs.  The user stays on positions with at most MaxOpen empty cells, so  *)
(* that every call of updateWinRates() is one whose batches are computed:   *)
(* no reset, and no undo below the window; and the user acts at most        *)
(* MaxFairActions times.                                                    *)
(***************************************************************************)
MaxFairActions == 2

NextPageFair ==
    \/ actions < MaxFairActions /\ \E col \in Columns : HandleColumnClick(col)
    \/ actions < MaxFairActions /\ Undo /\ InWindow(history')
    \/ actions < MaxFairActions /\ Redo
    \/ TimeoutExpires
    \/ \E e \in 1 .. Len(evals) : MctsSettles(e)

SpecPageFair ==
    /\ InitPage
    /\ [][NextPageFair]_vars
    /\ WF_timers(TimerFires)
    /\ WF_vars(\E e \in 1 .. Len(evals) : MctsSettles(e))

(***************************************************************************)
(* The search called directly and the page, side by side: a behaviour is    *)
(* one of a search tree and its caller, or one of the page.                 *)
(***************************************************************************)
InitEngine == InitMcts \/ InitPage

NextEngine == NextMcts \/ NextPage

SpecEngine == InitEngine /\ [][NextEngine]_vars



(***************************************************************************)
(* C8: after mcts has been asked for N iterations in all against one root,  *)
(* in any number of calls, the root's visit count is N.  This is the claim  *)
(* as stated; a root whose board is full contradicts it.                    *)
(***************************************************************************)
C8_RootVisitsAreAsked == i = iterations => tree[Root].visits = asked

(***************************************************************************)
(* C8, amended: when the root's board has a legal column, the root's visit  *)
(* count is the number of iterations asked for in all calls so far (less    *)
(* those the running call has still to do), however the calls split them;   *)
(* when every column is full mcts returns at once and the count stays 0.    *)
(***************************************************************************)
C8_RootVisitsAccumulate ==
    IF Len(GetLegalMoves(tree[Root].board)) > 0
    THEN tree[Root].visits = asked - (iterations - i)
    ELSE tree[Root].visits = 0

\* A second or later call has returned and the counts of all calls add up.
C8_Witness ==
    /\ Len(GetLegalMoves(tree[Root].board)) > 0
    /\ i = iterations
    /\ asked > iterations
    /\ iterations > 1
    /\ tree[Root].visits = asked

(***************************************************************************)
(* C9: every node has 0 <= wins <= visits, so every estimate that           *)
(* displayWinRates publishes (wins/visits, or 0 without visits) is within   *)
(* [0, 1]: between 0.0% and 100.0%.                                         *)
(***************************************************************************)
C9_WinRateWithinBounds ==
    /\ \A id \in DOMAIN tree : 0 <= tree[id].wins /\ tree[id].wins <= tree[id].visits
    /\ \A c \in Columns : overlay[c] = NoText \/ overlay[c] \in 0 .. 1000

\* Estimates are on display, one of them strictly between 0% and 100%, and one
\* child has won every playout through it.
C9_Witness ==
    /\ \E c \in Columns : overlay[c] \in 1 .. 999
    /\ \E k \in 1 .. Len(tree[Root].children) :
          LET child == tree[tree[Root].children[k]]
          IN  child.visits >= 2 /\ child.wins = child.visits

(***************************************************************************)
(* C10: whenever selectChild is applied to a node, the node has no untried  *)
(* move and each of its children has at least one visit; and no child has a *)
(* second visit before every legal move of its parent has been expanded     *)
(* into a child with at least one visit.                                    *)
(***************************************************************************)
C10_AllChildrenTriedFirst ==
    /\ \A k \in 1 .. Len(selectLog) :
          /\ selectLog[k].untriedMoves = 0
          /\ \A c \in 1 .. Len(selectLog[k].childVisits) :
                selectLog[k].childVisits[c] >= 1
    /\ \A id \in DOMAIN tree :
          (\E k \in 1 .. Len(tree[id].children) :
                tree[tree[id].children[k]].visits >= 2)
          => /\ tree[id].untriedMoves = <<>>
             /\ \A m \in 1 .. Len(GetLegalMoves(tree[id].board)) :
                   LET child == Append(id, GetLegalMoves(tree[id].board)[m])
                   IN  child \in DOMAIN tree /\ tree[child].visits >= 1

\* The last iteration applied selectChild at two levels, the first time to a
\* node with several children.
C10_Witness ==
    /\ Len(selectLog) >= 2
    /\ Len(selectLog[1].childVisits) >= 2

(***************************************************************************)
(* C13: for a root whose position has exactly one legal column, after any   *)
(* nonzero number of iterations the root has exactly one child and that     *)
(* child's visit count is the root's.  This is the claim as stated; a root  *)
(* whose position is already won, with one column not yet full, contradicts *)
(* it: its untriedMoves is empty from the constructor on.                   *)
(***************************************************************************)
C13_OneLegalColumnOneChild ==
    (/\ Len(GetLegalMoves(tree[Root].board)) = 1
     /\ asked - (iterations - i) > 0)
    => /\ Len(tree[Root].children) = 1
       /\ tree[tree[Root].children[1]].visits = tree[Root].visits

(***************************************************************************)
(* C13, amended: for a root whose position has exactly one legal column and *)
(* is not won, after any nonzero number of iterations the root has exactly  *)
(* one child, with the root's visit count; a won root with one legal column *)
(* never has a child.                                                       *)
(***************************************************************************)
C13_OneLegalColumnOneChildUnlessWon ==
    (/\ Len(GetLegalMoves(tree[Root].board)) = 1
     /\ asked - (iterations - i) > 0)
    => IF tree[Root].isTerminalWin
       THEN tree[Root].children = <<>>
       ELSE /\ Len(tree[Root].children) = 1
            /\ tree[tree[Root].children[1]].visits = tree[Root].visits

\* Several iterations on a root that is not won and has one legal column went
\* through its only child, which is not the end of the game.
C13_Witness ==
    /\ Len(GetLegalMoves(tree[Root].board)) = 1
    /\ ~tree[Root].isTerminalWin
    /\ Len(tree[Root].children) = 1
    /\ tree[Root].visits >= 3
    /\ tree[tree[Root].children[1]].visits = tree[Root].visits
    /\ tree[tree[Root].children[1]].children # <<>>

\* The nodes on the parent path from node id up to and including the root.
RECURSIVE ParentPath(_, _)
ParentPath(t, id) == IF id = Null THEN {} ELSE {id} \cup ParentPath(t, t[id].parent)

\* visits and wins of node id in tree t; a node not yet created has none.
VisitsIn(t, id) == IF id \in DOMAIN t THEN t[id].visits ELSE 0
WinsIn(t, id) == IF id \in DOMAIN t THEN t[id].wins ELSE 0

(***************************************************************************)
(* C16: one call node.backpropagate(winner) adds exactly 1 to visits on     *)
(* exactly the nodes of the parent path from node up to and including the   *)
(* root, adds exactly 1 to wins on exactly those path nodes that have a     *)
(* parent whose board's currentPlayer is winner, and changes no statistic   *)
(* off the path; so the root's wins stay 0 and a draw (winner 0) adds to no *)
(* node's wins.                                                             *)
(***************************************************************************)
C16_BackpropagateEffect ==
    [][(i' = i + 1 /\ ~thrown') =>
          LET node   == backprop'.node
              winner == backprop'.winner
              path   == ParentPath(tree', node)
          IN  /\ Root \in path
              /\ \A id \in DOMAIN tree' :
                    LET credited == /\ id \in path
                                    /\ tree'[id].parent # Null
                                    /\ tree'[tree'[id].parent].board.currentPlayer = winner
                    IN  /\ tree'[id].visits
                              = VisitsIn(tree, id) + (IF id \in path THEN 1 ELSE 0)
                        /\ tree'[id].wins
                              = WinsIn(tree, id) + (IF credited THEN 1 ELSE 0)
              /\ tree'[Root].wins = 0
              /\ winner = 0 => \A id \in DOMAIN tree' : tree'[id].wins = WinsIn(tree, id)
       ]_vars

\* The last call started two levels below the root with a player as winner: one
\* node of its path was credited, another was not, and a node with visits lies
\* off the path.
C16_Witness ==
    /\ backprop.winner \in Players
    /\ Len(backprop.node) >= 2
    /\ backprop.node \in DOMAIN tree
    /\ \E id \in ParentPath(tree, backprop.node) \ {Root} :
          tree[tree[id].parent].board.currentPlayer = backprop.winner
    /\ \E id \in ParentPath(tree, backprop.node) \ {Root} :
          tree[tree[id].parent].board.currentPlayer # backprop.winner
    /\ \E id \in DOMAIN tree \ ParentPath(tree, backprop.node) : tree[id].visits > 0

(***************************************************************************)
(* C17: an iteration that ends at a non-root node flagged isTerminalWin     *)
(* propagates as winner the player who moved into that node, the player to  *)
(* move on its parent's board; so every non-root isTerminalWin node has     *)
(* wins = visits, and it never has children.                                *)
(***************************************************************************)
C17_TerminalWinCreditsMover ==
    /\ (/\ backprop.node \in DOMAIN tree
         /\ backprop.node # Root
         /\ tree[backprop.node].isTerminalWin)
        => backprop.winner = tree[tree[backprop.node].parent].board.currentPlayer
    /\ \A id \in DOMAIN tree \ {Root} :
          tree[id].isTerminalWin
          => /\ tree[id].wins = tree[id].visits
             /\ tree[id].children = <<>>

\* The last iteration ended, not for the first time, at a non-root
\* isTerminalWin node whose board still has a legal column, and the parent of
\* that node has another child.
C17_Witness ==
    /\ backprop.node \in DOMAIN tree
    /\ backprop.node # Root
    /\ tree[backprop.node].isTerminalWin
    /\ tree[backprop.node].visits >= 2
    /\ Len(GetLegalMoves(tree[backprop.node].board)) > 0
    /\ Len(tree[tree[backprop.node].parent].children) >= 2

\* The boards a playout that starts on board b can pass through or end on.
RECURSIVE PlayoutBoards(_)
PlayoutBoards(b) ==
    IF CheckWin(b) \/ b.moveCount = ROWS * COLS THEN {b}
    ELSE {b} \cup UNION {PlayoutBoards(MakeMove(b, c)) :
                            c \in {col \in Columns : b.column_heights[col] < ROWS}}

\* The 42nd move completed four in a row.
FullAndWon(b) == b.moveCount = ROWS * COLS /\ CheckWin(b)

(***************************************************************************)
(* C18: a position whose 42nd move completed four in a row is resolved as a *)
(* win for the player who made that move, never as a draw: when mcts ends   *)
(* an iteration at a node with such a board, and when the loop of a playout *)
(* from the node of the last iteration arrives at such a board.             *)
(***************************************************************************)
C18_FullAndWonIsAWin ==
    /\ (backprop.node \in DOMAIN tree /\ FullAndWon(tree[backprop.node].board))
        => backprop.winner = 3 - tree[backprop.node].board.currentPlayer
    /\ backprop.node \in DOMAIN tree
        => \A b \in PlayoutBoards(tree[backprop.node].board) :
              FullAndWon(b) => SimulateLoop(b) = {3 - b.currentPlayer}

\* The last iteration ended at a non-root node whose board is full and won; its
\* parent has a single legal column and one visit more, from the iteration that
\* created it and whose playout ended on that same board.
C18_Witness ==
    /\ backprop.node \in DOMAIN tree
    /\ backprop.node # Root
    /\ FullAndWon(tree[backprop.node].board)
    /\ tree[backprop.node].isTerminalWin /\ tree[backprop.node].isTerminalDraw
    /\ backprop.winner \in Players
    /\ LET parent == tree[tree[backprop.node].parent]
       IN  /\ Len(GetLegalMoves(parent.board)) = 1
           /\ parent.parent # Null
           /\ parent.visits = tree[backprop.node].visits + 1
           /\ parent.wins = 0

\* The columns in which one move on node id's board gives child's board.
ColumnsInto(t, id, child) ==
    {c \in Columns : /\ t[id].board.column_heights[c] < ROWS
                      /\ t[child].board = MakeMove(t[id].board, c)}

(***************************************************************************)
(* C19: at every iteration boundary, for every node that is neither a won   *)
(* nor a drawn position: each child's board is the node's board plus one    *)
(* move in one column, the child's column; the children's columns and       *)
(* untriedMoves together are the legal columns of the node's board, each    *)
(* once; the children are in strictly descending column order; and          *)
(* untriedMoves lists, in ascending order, the legal columns below every    *)
(* child's column.                                                          *)
(***************************************************************************)
C19_ChildrenAndUntriedPartitionLegal ==
    \A id \in DOMAIN tree :
       (~tree[id].isTerminalWin /\ ~tree[id].isTerminalDraw)
       => LET node     == tree[id]
              legal    == {c \in Columns : node.board.column_heights[c] < ROWS}
              kids     == node.children
              untried  == node.untriedMoves
              tried    == UNION {ColumnsInto(tree, id, kids[k]) : k \in 1 .. Len(kids)}
              rest     == {untried[k] : k \in 1 .. Len(untried)}
          IN  /\ \A k \in 1 .. Len(kids) :
                    /\ tree[kids[k]].parent = id
                    /\ Cardinality(ColumnsInto(tree, id, kids[k])) = 1
              /\ tried \cup rest = legal
              /\ tried \cap rest = {}
              /\ Cardinality(tried) = Len(kids)
              /\ Cardinality(rest) = Len(untried)
              /\ \A k \in 1 .. Len(kids), n \in 1 .. Len(kids) :
                    k < n => \A c \in ColumnsInto(tree, id, kids[k]),
                                d \in ColumnsInto(tree, id, kids[n]) : c > d
              /\ \A k \in 1 .. Len(untried), n \in 1 .. Len(untried) :
                    k < n => untried[k] < untried[n]
              /\ \A c \in tried, d \in rest : d < c

\* A node below the root has two children or more and still an untried move,
\* and its legal columns are not adjacent ones.
C19_Witness ==
    \E id \in DOMAIN tree \ {Root} :
       /\ ~tree[id].isTerminalWin /\ ~tree[id].isTerminalDraw
       /\ Len(tree[id].children) >= 2
       /\ Len(tree[id].untriedMoves) >= 1
       /\ \E c \in Columns :
             /\ tree[id].board.column_heights[c] = ROWS
             /\ \E k \in 1 .. Len(tree[id].children) :
                   \A d \in ColumnsInto(tree, id, tree[id].children[k]) : d > c
             /\ tree[id].untriedMoves[1] < c

(***************************************************************************)
(* C15: iterations never change a Board held in the history nor the Board   *)
(* of a node created earlier: the root's board is a copy of the live Board, *)
(* and expand() and simulate() apply their moves to fresh copies only.      *)
(* Every Board object that exists before a step has the same fields and the *)
(* same column heights after it; the live Board stays the position the      *)
(* search was started on, and each node's Board stays the one the node was  *)
(* created with.                                                            *)
(***************************************************************************)
C15_IterationsLeaveBoardsAlone ==
    [][/\ \A obj \in DOMAIN heap.boards :
             /\ obj \in DOMAIN heap'.boards
             /\ BoardAt(heap', obj) = BoardAt(heap, obj)
       /\ BoardAt(heap', Live) = board
       /\ DOMAIN heap'.boards = DOMAIN tree' \cup {Live}
       /\ \A id \in DOMAIN tree : tree'[id].board = tree[id].board
       /\ \A id \in DOMAIN tree' : BoardAt(heap', id) = tree'[id].board
      ]_vars

\* Nodes two levels below the root have been created and playouts have run from
\* a node below the root.
C15_Witness ==
    /\ \E id \in DOMAIN tree :
          /\ Len(id) >= 2
          /\ tree[id].board.moveCount = board.moveCount + Len(id)
    /\ \E id \in DOMAIN tree :
          /\ Len(id) >= 1
          /\ ~tree[id].isTerminalWin /\ ~tree[id].isTerminalDraw
          /\ tree[id].visits >= 1
    /\ BoardAt(heap, Live) = board
    /\ BoardAt(heap, Root) = board

(***************************************************************************)
(* C11: when a call of updateWinRates() comes to a batch boundary, a        *)
(* timeout of its own having expired, and the top of the history is not the *)
(* Board it captured, it returns: it runs no batch and publishes nothing in *)
(* that step, no overlay changes, nothing is thrown, and a call that has    *)
(* returned never runs a batch or publishes again.                          *)
(***************************************************************************)
C11_StaleEvaluationEnds ==
    [][\A e \in 1 .. Len(evals) :
          /\ (/\ evals[e].pc = "timeout"
              /\ evals'[e] # evals[e]
              /\ evals[e].currentBoard # Top(history))
             => /\ evals'[e].pc = "returned"
                /\ evals'[e].batches = evals[e].batches
                /\ evals'[e].published = evals[e].published
                /\ overlay' = overlay
          /\ evals[e].pc = "returned" => evals'[e] = evals[e]
      ]_vars

\* A call that had run a batch and published its estimates has returned before
\* the end of its loop, on finding another Board at the top of the history.
C11_Witness ==
    \E e \in 1 .. Len(evals) :
       /\ evals[e].pc = "returned"
       /\ evals[e].batches >= 1
       /\ evals[e].published >= 1
       /\ evals[e].i < Batches
       /\ evals[e].currentBoard # Top(history)

(***************************************************************************)
(* C12: whatever the user does between the suspension points, once a newer  *)
(* call of updateWinRates() has started, no earlier call runs a batch or    *)
(* publishes estimates: only the newest call does.  This is the claim as    *)
(* stated; an earlier call whose Board is back at the top of the history,   *)
(* after a move and an undo or after an undo and a redo, contradicts it.    *)
(***************************************************************************)
C12_OnlyNewestEvaluationRuns ==
    [][\A e \in 1 .. Len(evals) :
          (\/ evals'[e].batches > evals[e].batches
           \/ evals'[e].published > evals[e].published)
          => e = Len(evals)
      ]_vars

(***************************************************************************)
(* C20: a call publishes its estimates only while the top of the history is *)
(* the Board it captured; from its staleness check to its publication no    *)
(* user action takes effect: while a call waits on the promise of mcts the  *)
(* history, the redo stack and gameOver stay as they are.                   *)
(***************************************************************************)
C20_PublishesOnCapturedBoard ==
    [][\A e \in 1 .. Len(evals) :
          /\ evals'[e].published > evals[e].published
             => /\ evals[e].currentBoard = Top(history)
                /\ evals[e].currentBoard = Top(history')
          /\ evals[e].pc = "mcts"
             => /\ evals[e].currentBoard = Top(history)
                /\ <<history, redoStack, gameOver>>' = <<history, redoStack, gameOver>>
          /\ evals'[e].batches > evals[e].batches
             => /\ evals[e].currentBoard = Top(history)
                /\ evals'[e].pc \in {"mcts", "thrown"}
      ]_vars

\* A call has published twice, the second time after the user had moved and
\* taken the move back.
C20_Witness ==
    \E e \in 1 .. Len(evals) :
       /\ evals[e].published >= 2
       /\ evals[e].pc = "timeout"
       /\ evals[e].currentBoard = Top(history)
       /\ Len(evals) >= e + 2
       /\ redoStack # <<>>

\* All seven columns of board b are full.
AllColumnsFull(b) == \A c \in Columns : b.column_heights[c] = ROWS

(***************************************************************************)
(* C14: when all seven columns are full, mcts performs no iteration and     *)
(* leaves the root as it was built, with visits 0, wins 0 and no children,  *)
(* however often it is called; and a call of updateWinRates() that finds    *)
(* such a Board at the top of the history returns before its first timeout: *)
(* it builds no root, runs no batch and publishes nothing, and while that   *)
(* Board is at the top no overlay has a text.                               *)
(***************************************************************************)
C14_FullBoardNoSearch ==
    /\ (Root \in DOMAIN tree /\ AllColumnsFull(tree[Root].board))
       => /\ i = 0 /\ iterations = 0
          /\ backprop = NoCall
          /\ DOMAIN tree = {Root}
          /\ tree[Root].visits = 0
          /\ tree[Root].wins = 0
          /\ tree[Root].children = <<>>
          /\ \A c \in Columns : overlay[c] = NoText
    /\ \A e \in 1 .. Len(evals) :
          AllColumnsFull(evals[e].currentBoard.board)
          => /\ evals[e].pc = "returned"
             /\ evals[e].i = -1
             /\ evals[e].rootNode = <<>>
             /\ evals[e].batches = 0
             /\ evals[e].published = 0
             /\ \A k \in 1 .. Len(timers) : timers[k] # e
    /\ (Loaded /\ AllColumnsFull(Top(history).board))
       => \A c \in Columns : overlay[c] = NoText

\* mcts has been called more than once, for several iterations, on a root whose
\* board is full and not won, and the root is as it was built.
C14_Witness ==
    /\ Root \in DOMAIN tree
    /\ AllColumnsFull(tree[Root].board)
    /\ ~tree[Root].isTerminalWin
    /\ asked >= 4
    /\ tree[Root].visits = 0

\* The sum of the visit counts of the first k children of node id.
RECURSIVE ChildVisits(_, _, _)
ChildVisits(t, id, k) ==
    IF k = 0 THEN 0 ELSE t[t[id].children[k]].visits + ChildVisits(t, id, k - 1)

(***************************************************************************)
(* C22: at every iteration boundary, a node that is neither won nor full    *)
(* has as many visits as its children together, plus 1 when it is not the   *)
(* root (the playout of the iteration that created it); a node that is won  *)
(* or full has no children and no untried moves.                            *)
(***************************************************************************)
C22_VisitsAreChildrenVisits ==
    \A id \in DOMAIN tree :
       IF tree[id].isTerminalWin \/ tree[id].isTerminalDraw
       THEN /\ tree[id].children = <<>>
            /\ tree[id].untriedMoves = <<>>
       ELSE tree[id].visits
               = ChildVisits(tree, id, Len(tree[id].children))
                    + (IF id = Root THEN 0 ELSE 1)

\* A node below the root, neither won nor full, has been visited through two
\* of its children, and the tree has a node that is won or full and visited.
C22_Witness ==
    /\ \E id \in DOMAIN tree \ {Root} :
          /\ ~tree[id].isTerminalWin /\ ~tree[id].isTerminalDraw
          /\ Len(tree[id].children) >= 2
          /\ tree[id].visits >= 3
          /\ \A k \in 1 .. Len(tree[id].children) : tree[tree[id].children[k]].visits >= 1
    /\ \E id \in DOMAIN tree \ {Root} :
          /\ tree[id].isTerminalWin \/ tree[id].isTerminalDraw
          /\ tree[id].visits >= 1
    /\ tree[Root].visits >= 4

(***************************************************************************)
(* One call of simulate(), pass by pass.  The calls start on the boards of  *)
(* the nodes mcts() hands to simulate(): boards of a search tree whose root *)
(* is a position of a recorded game with at most MaxEmpty empty cells, that *)
(* are neither won nor full.                                                *)
(***************************************************************************)

\* The boards of the nodes a search tree with root board b can hold: expand()
\* gives a node that is not terminal one child for each of its legal moves.
RECURSIVE NodeBoards(_)
NodeBoards(b) ==
    IF CheckWin(b) \/ IsDraw(b) THEN {b}
    ELSE {b} \cup UNION {NodeBoards(MakeMove(CopyBoard(b), GetLegalMoves(b)[k])) :
                            k \in 1 .. Len(GetLegalMoves(b))}

\* const tempBoard = new Board(this.board);
InitPlayout ==
    /\ \E g \in 1 .. Len(Games), n \in (ROWS * COLS - MaxEmpty) .. (ROWS * COLS) :
          /\ game = g
          /\ nodeBoard \in {b \in NodeBoards(Replay(Games[g], n)) :
                               ~CheckWin(b) /\ ~IsDraw(b)}
    /\ board = CopyBoard(nodeBoard)
    /\ ret = FALSE
    /\ lastCol = -1
    /\ result = "none"
    /\ dev = 0
    /\ played = 0
    /\ returned = NotReturned
    /\ NoTree
    /\ NoPage

\* One pass of the while (true) loop of simulate(), k the random draw.
SimulatePass ==
    /\ nodeBoard # <<>>
    /\ returned = NotReturned
    /\ IF CheckWin(board)
       THEN /\ returned' = 3 - board.currentPlayer
            /\ UNCHANGED <<board, ret, lastCol, played>>
       ELSE IF IsDraw(board)
       THEN /\ returned' = 0
            /\ UNCHANGED <<board, ret, lastCol, played>>
       ELSE LET legalMoves == GetLegalMoves(board)
            IN  IF Len(legalMoves) = 0
                THEN /\ returned' = Throws
                     /\ UNCHANGED <<board, ret, lastCol, played>>
                ELSE \E k \in 1 .. Len(legalMoves) :
                        /\ lastCol' = legalMoves[k]
                        /\ ret' = MakeMoveOk(board, legalMoves[k])
                        /\ board' = MakeMove(board, legalMoves[k])
                        /\ played' = played + 1
                        /\ UNCHANGED returned
    /\ UNCHANGED <<nodeBoard, result, game, dev>>
    /\ UNCHANGED treeVars
    /\ UNCHANGED pageVars

NextPlayout == SimulatePass

\* The loop is synchronous code: a pass that can run does run.
SpecPlayout == InitPlayout /\ [][NextPlayout]_vars /\ WF_vars(SimulatePass)

(***************************************************************************)
(* C21: a playout started on the board of a node that is neither won nor    *)
(* full makes at most 42 - moveCount moves, whatever the random draws; it   *)
(* never draws from an empty list of legal moves and none of its makeMove() *)
(* calls fails; it returns 1 or 2, the player who made the move that        *)
(* completed four in a row, or 0 on a full board without four in a row,     *)
(* which is also what Simulate gives as its possible values; and it does    *)
(* return.                                                                  *)
(***************************************************************************)
C21_PlayoutTerminates ==
    /\ [](nodeBoard # <<>> =>
            /\ played <= ROWS * COLS - nodeBoard.moveCount
            /\ played > 0 => ret
            /\ returned \in {NotReturned, 0, 1, 2}
            /\ returned \in Players =>
                  /\ returned = 3 - board.currentPlayer
                  /\ RefFour(LastMoverBits(board))
            /\ returned = 0 =>
                  /\ SumHeights(board.column_heights, COLS - 1) = ROWS * COLS
                  /\ ~RefFour(board.player1_board)
                  /\ ~RefFour(board.player2_board)
            /\ returned # NotReturned =>
                  /\ returned \in Simulate(nodeBoard)
                  /\ Simulate(nodeBoard) \subseteq {0, 1, 2})
    /\ <>(nodeBoard # <<>> /\ returned # NotReturned)

\* A playout from a node with at least four empty cells that filled the board:
\* it made 42 - moveCount moves, every one of them legal, and returned a draw.
C21_Witness ==
    /\ nodeBoard # <<>>
    /\ nodeBoard.moveCount <= ROWS * COLS - 4
    /\ played = ROWS * COLS - nodeBoard.moveCount
    /\ ret
    /\ returned = 0

\* The last mover has four in a row on board b.
Won(b) == RefFour(LastMoverBits(b))

\* No Board of the history below its top is won, gameOver is set when the top
\* is won, and no call of updateWinRates() that got past its early returns, and
\* so none that has a rootNode, captured a won position.
NoWonPositionInPlay ==
    /\ \A k \in 1 .. (Len(history) - 1) : ~Won(history[k].board)
    /\ Won(Top(history).board) => gameOver
    /\ \A e \in 1 .. Len(evals) :
          /\ (evals[e].pc # "returned" \/ evals[e].i >= 0) =>
                ~Won(evals[e].currentBoard.board)
          /\ evals[e].rootNode # <<>> =>
                /\ evals[e].rootNode[Root].board = evals[e].currentBoard.board
                /\ ~evals[e].rootNode[Root].isTerminalWin

(***************************************************************************)
(* C24: whatever the user's clicks, undos, redos and resets, the page       *)
(* starts with NoWonPositionInPlay and every step keeps it: history changes *)
(* by one Board pushed on a top in which the last mover has no four in a    *)
(* row, by its top popped, or by a reset to the empty board; after a step   *)
(* that changes history or gameOver, gameOver is set if the last mover has  *)
(* four in a row at the top; a call of updateWinRates() that starts on such *)
(* a top returns before its first timeout, a call keeps the Board it        *)
(* captured, a call that has returned does nothing more, and a rootNode is  *)
(* built on the captured Board.                                             *)
(***************************************************************************)
C24_NoPlayAfterWin ==
    /\ Loaded => NoWonPositionInPlay
    /\ [][Loaded =>
            /\ history' # history =>
                  \/ /\ history' = Append(history, Top(history'))
                     /\ ~Won(Top(history).board)
                  \/ /\ Len(history) > 1
                     /\ history' = SubSeq(history, 1, Len(history) - 1)
                  \/ /\ history' = <<Top(history')>>
                     /\ Top(history').board = NewBoard
            /\ (history' # history \/ gameOver' # gameOver) =>
                  (Won(Top(history').board) => gameOver')
            /\ \A e \in 1 .. Len(evals') :
                  IF e > Len(evals)
                  THEN /\ evals'[e].currentBoard = Top(history')
                       /\ evals'[e].rootNode = <<>>
                       /\ evals'[e].i = -1
                       /\ evals'[e].pc # "returned" =>
                             ~Won(evals'[e].currentBoard.board)
                  ELSE /\ evals'[e].currentBoard = evals[e].currentBoard
                       /\ evals[e].pc = "returned" => evals'[e] = evals[e]
                       /\ evals'[e].rootNode # <<>> =>
                             /\ evals'[e].rootNode[Root].board
                                   = evals[e].currentBoard.board
                             /\ ~evals'[e].rootNode[Root].isTerminalWin
       ]_vars

\* A move has just been put on the history that gave its mover four in a row:
\* gameOver is set, the call of updateWinRates() for the new top returned at
\* once, the call before it had captured the position below and built a
\* rootNode on it, and nothing is left to redo.
C24_Witness ==
    /\ Loaded
    /\ Len(history) >= 2
    /\ Len(evals) >= 2
    /\ actions >= 1
    /\ Won(Top(history).board)
    /\ gameOver
    /\ redoStack = <<>>
    /\ evals[Len(evals)].currentBoard = Top(history)
    /\ evals[Len(evals)].pc = "returned"
    /\ evals[Len(evals)].i = -1
    /\ evals[Len(evals) - 1].currentBoard = history[Len(history) - 1]
    /\ evals[Len(evals) - 1].rootNode # <<>>

(***************************************************************************)
(* C23: every call of updateWinRates() ends.  A call that wakes from its    *)
(* timeout while the position at the top of the history is not the one it   *)
(* captured returns there and then, and a call that has returned does       *)
(* nothing more; a call that returns while the Board it captured is at the  *)
(* top has run exactly Batches batches, has published after each of them,   *)
(* and its rootNode has been through Batches * BATCH_SIZE iterations; each  *)
(* batch is BATCH_SIZE iterations on the rootNode and is followed by one    *)
(* publication before the next batch.                                       *)
(***************************************************************************)
C23_EvaluationTerminates ==
    /\ [][\A e \in 1 .. Len(evals) :
             LET wakes == evals[e].pc = "timeout" /\ evals'[e] # evals[e]
             IN  /\ (wakes /\ evals[e].currentBoard.board # Top(history).board)
                       => evals'[e].pc = "returned"
                 /\ evals[e].pc = "returned" => evals'[e] = evals[e]
                 /\ (/\ wakes
                     /\ evals'[e].pc = "returned"
                     /\ evals[e].currentBoard = Top(history))
                       => /\ evals[e].batches = Batches
                          /\ evals[e].published = Batches
                          /\ evals[e].rootNode[Root].visits = Batches * BATCH_SIZE
                 /\ evals'[e].batches > evals[e].batches
                       => /\ evals'[e].batches = evals[e].batches + 1
                          /\ evals[e].published = evals[e].batches
                          /\ evals'[e].rootNode[Root].visits
                                = evals'[e].batches * BATCH_SIZE
                 /\ evals'[e].published > evals[e].published
                       => evals'[e].published = evals[e].batches
       ]_vars
    /\ \A e \in 1 .. (MaxFairActions + 1) :
          (e <= Len(evals)) ~> (e <= Len(evals) /\ evals[e].pc = "returned")

\* After one user action and nothing else from the user: the first call ran a
\* batch, published, and returned at its next wake because the top had changed;
\* the second call ran all its batches, published after each, and returned.
C23_Witness ==
    /\ actions = 1
    /\ Len(evals) = 2
    /\ evals[1].pc = "returned"
    /\ evals[1].batches >= 1
    /\ evals[1].batches < Batches
    /\ evals[1].published = evals[1].batches
    /\ evals[2].pc = "returned"
    /\ evals[2].currentBoard = Top(history)
    /\ evals[2].batches = Batches
    /\ evals[2].published = Batches
    /\ evals[2].i = Batches

====
